---- MODULE Spec2Model ----
(***************************************************************************)
(* Bounded-concurrency query dispatch of pkg/prom/query.go.                *)
(*                                                                         *)
(* A Context owns a counting semaphore and an error collector.  Query     *)
(* makes an unbuffered channel, starts one goroutine and returns the       *)
(* channel; QueryAll calls Query once per input query.  The goroutine      *)
(* runs ctx.query (Acquire, build request, Client.Do, json.Unmarshal,      *)
(* deferred Return), reports the request error, parses the raw value,      *)
(* reports the parse error and sends the parsed value on its channel.      *)
(*                                                                         *)
(* Values (decoded payloads, results, errors, bodies) are tuples of        *)
(* strings; the nil value is the empty tuple.                              *)
(***************************************************************************)
EXTENDS Integers, Sequences, FiniteSets, Bags, TLC

\* Number of goroutines (one per Query call) the model creates at most.
MaxWorkers == 2

\* NewContext gives the gate 20 permits.
DefaultCapacity == 20

\* Besides DefaultCapacity the model runs the same code with every capacity
\* 1..MaxCapacity, so that batches larger than the gate exist within
\* MaxWorkers.
MaxCapacity == 2

\* Number of QueryAll / Query calls the caller makes at most.
MaxCalls == 2

Queries == {"q1", "q2"}

Workers == 1..MaxWorkers

Nil == <<>>

VARIABLES
    capacity,   \* Semaphore: number of permits, fixed by NewContext
    permits,    \* Semaphore: permits currently held
    errors,     \* ErrorCollector: the collected errors, in append order
    nworkers,   \* goroutines (= channels) created so far
    pc,         \* per goroutine: position in the func literal of Query
    query,      \* per goroutine: the captured query string
    resp,       \* per goroutine: what Client.Do returned (resp, body, err)
    raw,        \* per goroutine: local raw
    promErr,    \* per goroutine: local promErr
    results,    \* per goroutine: local results
    parseErr,   \* per goroutine: local parseErr
    chanVal,    \* per channel: the values the receiver has taken from it
    closed,     \* per channel: whether close() was called on it
    caller,     \* the caller's position inside QueryAll
    calls,      \* completed Query/QueryAll calls: arguments and return value
    acq,        \* per goroutine: number of Acquire calls that returned
    rel,        \* per goroutine: number of Return calls made
    snap        \* the slice the latest call of Errors() returned

semvars == <<capacity, permits, acq, rel>>
locals  == <<query, resp, raw, promErr, results, parseErr>>
chvars  == <<chanVal, closed>>
cvars   == <<caller, calls, snap>>
vars == <<capacity, permits, errors, nworkers, pc, query, resp, raw, promErr,
          results, parseErr, chanVal, closed, caller, calls, acq, rel, snap>>

-----------------------------------------------------------------------------
(* The backend, request errors and JSON decoding                           *)

\* The error http.NewRequest returns (query.go:90-93), passed on unchanged.
NewRequestErr == <<"newrequest">>

\* Client.Do's results the code distinguishes: err with resp == nil, err with
\* a response (status code), or no err and a body.
NoResp == [status |-> "", body |-> Nil, err |-> Nil]

\* JSON text is a tuple that starts with "json" followed by the document.
Marshal(v) == <<"json">> \o v

\* The canned, well-formed answer of the backend to query q.
Canned(q) == Marshal(<<"success", q>>)

\* Valid JSON that is not a query response.
MismatchBody == Marshal(<<"unexpected">>)

\* A body that is not JSON at all.
NonJsonBody == <<"<html>">>

DoOutcomes(q) ==
    { [status |-> "",    body |-> Nil,          err |-> <<"dial">>],
      [status |-> "500", body |-> Nil,          err |-> <<"server">>],
      [status |-> "200", body |-> NonJsonBody,  err |-> Nil],
      [status |-> "200", body |-> MismatchBody, err |-> Nil],
      [status |-> "200", body |-> Canned(q),    err |-> Nil] }

\* json.Unmarshal(body, &toReturn)
Unmarshal(b) ==
    IF Len(b) > 0 /\ b[1] = "json"
    THEN [val |-> Tail(b), err |-> Nil]
    ELSE [val |-> Nil, err |-> <<"syntax">>]

\* fmt.Errorf("Error %s fetching query %s", err.Error(), query)
ErrorfFetch(e, q) == <<"Error">> \o e \o <<q>>

\* fmt.Errorf("%d Error %s fetching query %s", resp.StatusCode, err.Error(), query)
ErrorfStatus(status, e, q) == <<status, "Error">> \o e \o <<q>>

-----------------------------------------------------------------------------
(* Collaborators of this repository outside query.go                       *)

\* util.Semaphore: Acquire blocks until a permit is free.
SemCanAcquire == permits < capacity
SemAcquire == permits + 1
SemReturn == permits - 1

\* util.ErrorCollector.Report: appends a non-nil error under the lock.
Report(errs, e) == IF e = Nil THEN errs ELSE Append(errs, e)

\* util.ErrorCollector.Errors: a copy of the collected errors, taken under
\* the lock.
CollectorErrors(errs) == errs

\* NewQueryResults: a status indicator and a result payload are required; any
\* other shape yields a zero result and a parse error.
NewQueryResults(r) ==
    IF Len(r) = 2 /\ r[1] = "success"
    THEN [res |-> <<"result", r[2]>>, err |-> Nil]
    ELSE IF r = Nil
         THEN [res |-> Nil, err |-> <<"parse", "nil">>]
         ELSE [res |-> Nil, err |-> <<"parse", "shape">>]

-----------------------------------------------------------------------------
(* NewContext                                                              *)

Init ==
    /\ capacity \in (1..MaxCapacity) \cup {DefaultCapacity}
    /\ permits = 0
    /\ errors = <<>>
    /\ nworkers = 0
    /\ pc = [w \in Workers |-> "none"]
    /\ query = [w \in Workers |-> ""]
    /\ resp = [w \in Workers |-> NoResp]
    /\ raw = [w \in Workers |-> Nil]
    /\ promErr = [w \in Workers |-> Nil]
    /\ results = [w \in Workers |-> Nil]
    /\ parseErr = [w \in Workers |-> Nil]
    /\ chanVal = [w \in Workers |-> <<>>]
    /\ closed = [w \in Workers |-> FALSE]
    /\ caller = [pc |-> "idle", queries |-> <<>>, resChs |-> <<>>]
    /\ calls = <<>>
    /\ acq = [w \in Workers |-> 0]
    /\ rel = [w \in Workers |-> 0]
    /\ snap = <<>>

-----------------------------------------------------------------------------
(* Query and QueryAll (the caller's side)                                  *)

\* All argument lists of QueryAll with at most n queries.
Batches(n) == UNION {[1..k -> Queries] : k \in 0..n}

\* Variant of Spawn: the caller takes the gate's permit itself before it
\* starts the goroutine, so Query waits while the gate is full.
Spawn_WaitsForGate(q) ==
    /\ SemCanAcquire
    /\ nworkers' = nworkers + 1
    /\ pc' = [pc EXCEPT ![nworkers + 1] = "acquire"]
    /\ query' = [query EXCEPT ![nworkers + 1] = q]

\* Query's body: make(QueryResultsChan), start the goroutine with the query
\* and the channel, return the channel.  Channel c belongs to goroutine c.
\* Nothing here touches the semaphore or waits for the goroutine.
Spawn(q) ==
    /\ nworkers' = nworkers + 1
    /\ pc' = [pc EXCEPT ![nworkers + 1] = "acquire"]
    /\ query' = [query EXCEPT ![nworkers + 1] = q]

\* A direct call of Query(q), returning the new channel.
Query(q) ==
    /\ caller.pc = "idle"
    /\ Len(calls) < MaxCalls
    /\ nworkers < MaxWorkers
    /\ Spawn(q)
    /\ calls' = Append(calls, [queries |-> <<q>>, resChs |-> <<nworkers + 1>>])
    /\ UNCHANGED <<semvars, errors, resp, raw, promErr, results, parseErr,
                   chvars, caller, snap>>

\* Variant of QueryAllCall: every batch starts with an emptied collector.
QueryAllCall_ResetsCollector(qs) ==
    /\ caller.pc = "idle"
    /\ Len(calls) < MaxCalls
    /\ nworkers + Len(qs) <= MaxWorkers
    /\ caller' = [pc |-> "loop", queries |-> qs, resChs |-> <<>>]
    /\ errors' = <<>>
    /\ UNCHANGED <<semvars, nworkers, pc, locals, chvars, calls, snap>>

\* QueryAll(qs...) entered: resChs := []QueryResultsChan{}
QueryAllCall(qs) ==
    /\ caller.pc = "idle"
    /\ Len(calls) < MaxCalls
    /\ nworkers + Len(qs) <= MaxWorkers
    /\ caller' = [pc |-> "loop", queries |-> qs, resChs |-> <<>>]
    /\ UNCHANGED <<semvars, errors, nworkers, pc, locals, chvars, calls, snap>>

\* Variant of QueryAllLoop: every goroutine of the batch runs the last query
\* (the range variable captured by the closures instead of passed on).
QueryAllLoop_CapturedVar ==
    /\ caller.pc = "loop"
    /\ Len(caller.resChs) < Len(caller.queries)
    /\ Spawn(caller.queries[Len(caller.queries)])
    /\ caller' = [caller EXCEPT !.resChs = Append(@, nworkers + 1)]
    /\ UNCHANGED <<semvars, errors, resp, raw, promErr, results, parseErr,
                   chvars, calls, snap>>

\* One iteration of the range loop: resChs = append(resChs, ctx.Query(q))
QueryAllLoop ==
    /\ caller.pc = "loop"
    /\ Len(caller.resChs) < Len(caller.queries)
    /\ Spawn(caller.queries[Len(caller.resChs) + 1])
    /\ caller' = [caller EXCEPT !.resChs = Append(@, nworkers + 1)]
    /\ UNCHANGED <<semvars, errors, resp, raw, promErr, results, parseErr,
                   chvars, calls, snap>>

\* return resChs
QueryAllReturn ==
    /\ caller.pc = "loop"
    /\ Len(caller.resChs) = Len(caller.queries)
    /\ calls' = Append(calls, [queries |-> caller.queries,
                               resChs |-> caller.resChs])
    /\ caller' = [pc |-> "idle", queries |-> <<>>, resChs |-> <<>>]
    /\ UNCHANGED <<semvars, errors, nworkers, pc, locals, chvars, snap>>

\* Variant of Errors: the read hands the collected errors over and leaves the
\* collector empty.
Errors_Destructive ==
    /\ snap' = CollectorErrors(errors)
    /\ errors' = <<>>
    /\ UNCHANGED <<semvars, nworkers, pc, locals, chvars, caller, calls>>

\* Errors(): returns ctx.ErrorCollector.Errors().  Any holder of the Context
\* may call it at any time, also while goroutines are reporting.
Errors ==
    /\ snap' = CollectorErrors(errors)
    /\ UNCHANGED <<semvars, errors, nworkers, pc, locals, chvars, caller, calls>>

-----------------------------------------------------------------------------
(* The goroutine of Query: ctx.query                                       *)

\* Variant of Acquire: the goroutine goes on without waiting for a permit.
Acquire_NoWait(w) ==
    /\ pc[w] = "acquire"
    /\ permits' = SemAcquire
    /\ acq' = [acq EXCEPT ![w] = @ + 1]
    /\ pc' = [pc EXCEPT ![w] = "build"]
    /\ UNCHANGED <<capacity, rel, errors, nworkers, locals, chvars, cvars>>

\* ctx.semaphore.Acquire(), with Return deferred
Acquire(w) ==
    /\ pc[w] = "acquire"
    /\ SemCanAcquire
    /\ permits' = SemAcquire
    /\ acq' = [acq EXCEPT ![w] = @ + 1]
    /\ pc' = [pc EXCEPT ![w] = "build"]
    /\ UNCHANGED <<capacity, rel, errors, nworkers, locals, chvars, cvars>>

\* Variant of BuildRequest: Return is called at the end of ctx.query instead
\* of deferred, so the early return on a NewRequest failure skips it.
BuildRequest_NoDefer(w) ==
    /\ pc[w] = "build"
    /\ \E ok \in BOOLEAN :
          IF ok
          THEN /\ pc' = [pc EXCEPT ![w] = "inflight"]
               /\ UNCHANGED <<raw, promErr>>
          ELSE /\ raw' = [raw EXCEPT ![w] = Nil]
               /\ promErr' = [promErr EXCEPT ![w] = NewRequestErr]
               /\ pc' = [pc EXCEPT ![w] = "report1"]
    /\ UNCHANGED <<semvars, errors, nworkers, query, resp, results, parseErr,
                   chvars, cvars>>

\* Build the URL and the request; when http.NewRequest fails return
\* (nil, err), otherwise call Client.Do: the request is in flight.
BuildRequest(w) ==
    /\ pc[w] = "build"
    /\ \E ok \in BOOLEAN :
          IF ok
          THEN /\ pc' = [pc EXCEPT ![w] = "inflight"]
               /\ UNCHANGED <<raw, promErr>>
          ELSE /\ raw' = [raw EXCEPT ![w] = Nil]
               /\ promErr' = [promErr EXCEPT ![w] = NewRequestErr]
               /\ pc' = [pc EXCEPT ![w] = "release"]
    /\ UNCHANGED <<semvars, errors, nworkers, query, resp, results, parseErr,
                   chvars, cvars>>

\* Variant of DoReturn: a failed request is built and issued again.
DoReturn_Retry(w) ==
    /\ pc[w] = "inflight"
    /\ \E r \in DoOutcomes(query[w]) :
          /\ resp' = [resp EXCEPT ![w] = r]
          /\ pc' = [pc EXCEPT ![w] = IF r.err # Nil THEN "build" ELSE "decoding"]
    /\ UNCHANGED <<semvars, errors, nworkers, query, raw, promErr, results,
                   parseErr, chvars, cvars>>

\* Variant of DoReturn: the permit is given back as soon as Client.Do has
\* returned, before the body is decoded.
DoReturn_ReleasesFirst(w) ==
    /\ pc[w] = "inflight"
    /\ permits' = SemReturn
    /\ rel' = [rel EXCEPT ![w] = @ + 1]
    /\ \E r \in DoOutcomes(query[w]) :
          /\ resp' = [resp EXCEPT ![w] = r]
          /\ IF r.err # Nil
             THEN /\ raw' = [raw EXCEPT ![w] = Nil]
                  /\ promErr' = [promErr EXCEPT ![w] =
                        IF r.status = ""
                        THEN ErrorfFetch(r.err, query[w])
                        ELSE ErrorfStatus(r.status, r.err, query[w])]
                  /\ pc' = [pc EXCEPT ![w] = "report1"]
             ELSE /\ pc' = [pc EXCEPT ![w] = "decoding"]
                  /\ UNCHANGED <<raw, promErr>>
    /\ UNCHANGED <<capacity, acq, errors, nworkers, query, results, parseErr,
                   chvars, cvars>>

\* Client.Do returns.  With an error the function returns (nil, Errorf(...)),
\* with or without the status code; otherwise it goes on to decode the body.
\* Warnings are only logged and are not part of the state.
DoReturn(w) ==
    /\ pc[w] = "inflight"
    /\ \E r \in DoOutcomes(query[w]) :
          /\ resp' = [resp EXCEPT ![w] = r]
          /\ IF r.err # Nil
             THEN /\ raw' = [raw EXCEPT ![w] = Nil]
                  /\ promErr' = [promErr EXCEPT ![w] =
                        IF r.status = ""
                        THEN ErrorfFetch(r.err, query[w])
                        ELSE ErrorfStatus(r.status, r.err, query[w])]
                  /\ pc' = [pc EXCEPT ![w] = "release"]
             ELSE /\ pc' = [pc EXCEPT ![w] = "decoding"]
                  /\ UNCHANGED <<raw, promErr>>
    /\ UNCHANGED <<semvars, errors, nworkers, query, results, parseErr,
                   chvars, cvars>>

\* Variant of Decode: Return is not deferred and the returns after the
\* decoding leave without it.
Decode_NoDefer(w) ==
    /\ pc[w] = "decoding"
    /\ LET d == Unmarshal(resp[w].body) IN
          IF d.err # Nil
          THEN /\ raw' = [raw EXCEPT ![w] = Nil]
               /\ promErr' = [promErr EXCEPT ![w] = ErrorfFetch(d.err, query[w])]
          ELSE /\ raw' = [raw EXCEPT ![w] = d.val]
               /\ promErr' = [promErr EXCEPT ![w] = Nil]
    /\ pc' = [pc EXCEPT ![w] = "report1"]
    /\ UNCHANGED <<semvars, errors, nworkers, query, resp, results, parseErr,
                   chvars, cvars>>

\* json.Unmarshal(body, &toReturn) and the return that follows it
Decode(w) ==
    /\ pc[w] = "decoding"
    /\ LET d == Unmarshal(resp[w].body) IN
          IF d.err # Nil
          THEN /\ raw' = [raw EXCEPT ![w] = Nil]
               /\ promErr' = [promErr EXCEPT ![w] = ErrorfFetch(d.err, query[w])]
          ELSE /\ raw' = [raw EXCEPT ![w] = d.val]
               /\ promErr' = [promErr EXCEPT ![w] = Nil]
    /\ pc' = [pc EXCEPT ![w] = "release"]
    /\ UNCHANGED <<semvars, errors, nworkers, query, resp, results, parseErr,
                   chvars, cvars>>

\* Variant of Return: ctx.query returns without giving the permit back.
Return_Missing(w) ==
    /\ pc[w] = "release"
    /\ pc' = [pc EXCEPT ![w] = "report1"]
    /\ UNCHANGED <<semvars, errors, nworkers, locals, chvars, cvars>>

\* The deferred ctx.semaphore.Return() runs as ctx.query returns
Return(w) ==
    /\ pc[w] = "release"
    /\ permits' = SemReturn
    /\ rel' = [rel EXCEPT ![w] = @ + 1]
    /\ pc' = [pc EXCEPT ![w] = "report1"]
    /\ UNCHANGED <<capacity, acq, errors, nworkers, locals, chvars, cvars>>

-----------------------------------------------------------------------------
(* The goroutine of Query: report, parse, report, send                     *)

\* Variant of ReportPromErr: the goroutine returns after reporting a request
\* error, without sending on its channel.
ReportPromErr_EarlyReturn(w) ==
    /\ pc[w] = "report1"
    /\ errors' = Report(errors, promErr[w])
    /\ pc' = [pc EXCEPT ![w] = IF promErr[w] # Nil THEN "done" ELSE "parse"]
    /\ UNCHANGED <<semvars, nworkers, locals, chvars, cvars>>

\* ctx.ErrorCollector.Report(promErr)
ReportPromErr(w) ==
    /\ pc[w] = "report1"
    /\ errors' = Report(errors, promErr[w])
    /\ pc' = [pc EXCEPT ![w] = "parse"]
    /\ UNCHANGED <<semvars, nworkers, locals, chvars, cvars>>

\* Variant of Parse: results is one variable shared by all goroutines
\* instead of a local of each.
Parse_SharedResults(w) ==
    /\ pc[w] = "parse"
    /\ results' = [x \in Workers |-> NewQueryResults(raw[w]).res]
    /\ parseErr' = [parseErr EXCEPT ![w] = NewQueryResults(raw[w]).err]
    /\ pc' = [pc EXCEPT ![w] = "report2"]
    /\ UNCHANGED <<semvars, errors, nworkers, query, resp, raw, promErr,
                   chvars, cvars>>

\* results, parseErr := NewQueryResults(raw)
Parse(w) ==
    /\ pc[w] = "parse"
    /\ results' = [results EXCEPT ![w] = NewQueryResults(raw[w]).res]
    /\ parseErr' = [parseErr EXCEPT ![w] = NewQueryResults(raw[w]).err]
    /\ pc' = [pc EXCEPT ![w] = "report2"]
    /\ UNCHANGED <<semvars, errors, nworkers, query, resp, raw, promErr,
                   chvars, cvars>>

\* Variant of ReportParseErr: the goroutine reports the parse error wrapped in
\* a new error, which is never nil.
ReportParseErr_Wrapped(w) ==
    /\ pc[w] = "report2"
    /\ errors' = Report(errors, <<"wrapped">> \o parseErr[w])
    /\ pc' = [pc EXCEPT ![w] = "send"]
    /\ UNCHANGED <<semvars, nworkers, locals, chvars, cvars>>

\* Variant of ReportParseErr: the send comes first and the parse error is
\* reported only after it.
ReportParseErr_AfterSend(w) ==
    /\ pc[w] = "report2"
    /\ pc' = [pc EXCEPT ![w] = "send"]
    /\ UNCHANGED <<semvars, errors, nworkers, locals, chvars, cvars>>

\* Variant of ReportParseErr: promErr is reported a second time in place of
\* parseErr.
ReportParseErr_WrongVar(w) ==
    /\ pc[w] = "report2"
    /\ errors' = Report(errors, promErr[w])
    /\ pc' = [pc EXCEPT ![w] = "send"]
    /\ UNCHANGED <<semvars, nworkers, locals, chvars, cvars>>

\* ctx.ErrorCollector.Report(parseErr)
ReportParseErr(w) ==
    /\ pc[w] = "report2"
    /\ errors' = Report(errors, parseErr[w])
    /\ pc' = [pc EXCEPT ![w] = "send"]
    /\ UNCHANGED <<semvars, nworkers, locals, chvars, cvars>>

\* Channels the caller holds: those a Query or QueryAll call has returned.
Returned == UNION {{calls[k].resChs[i] : i \in 1..Len(calls[k].resChs)} :
                   k \in 1..Len(calls)}

\* Variant of Send: the goroutine closes the channel after its send.
Send_ThenClose(w) ==
    /\ pc[w] = "send"
    /\ w \in Returned
    /\ ~closed[w]
    /\ chanVal' = [chanVal EXCEPT ![w] = Append(@, results[w])]
    /\ closed' = [closed EXCEPT ![w] = TRUE]
    /\ pc' = [pc EXCEPT ![w] = "done"]
    /\ UNCHANGED <<semvars, errors, nworkers, locals, cvars>>

\* resCh <- results.  The channel is unbuffered: the send completes together
\* with a receive of the caller, after which the goroutine ends.  The
\* goroutine does nothing else to the channel.
Send(w) ==
    /\ pc[w] = "send"
    /\ w \in Returned
    /\ ~closed[w]
    /\ chanVal' = [chanVal EXCEPT ![w] = Append(@, results[w])]
    /\ pc' = [pc EXCEPT ![w] = "done"]
    /\ UNCHANGED <<semvars, errors, nworkers, locals, closed, cvars>>

\* "Receiver is responsible for closing the channel": the caller closes a
\* channel after it has received from it.
ReceiverClose(c) ==
    /\ c \in Returned
    /\ Len(chanVal[c]) > 0
    /\ ~closed[c]
    /\ closed' = [closed EXCEPT ![c] = TRUE]
    /\ UNCHANGED <<semvars, errors, nworkers, pc, locals, chanVal, cvars>>

-----------------------------------------------------------------------------

\* Variant of Worker: a request in flight is given up after a timeout.
Worker_WithTimeout(w) ==
    \/ Acquire(w)
    \/ BuildRequest(w)
    \/ DoReturn(w)
    \/ Decode(w)
    \/ Return(w)
    \/ ReportPromErr(w)
    \/ Parse(w)
    \/ ReportParseErr(w)
    \/ Send(w)
    \/ /\ pc[w] = "inflight"
       /\ raw' = [raw EXCEPT ![w] = Nil]
       /\ promErr' = [promErr EXCEPT ![w] = ErrorfFetch(<<"timeout">>, query[w])]
       /\ pc' = [pc EXCEPT ![w] = "release"]
       /\ UNCHANGED <<semvars, errors, nworkers, query, resp, results,
                      parseErr, chvars, cvars>>

\* The func literal of Query, started once per call
Worker(w) ==
    \/ Acquire(w)
    \/ BuildRequest(w)
    \/ DoReturn(w)
    \/ Decode(w)
    \/ Return(w)
    \/ ReportPromErr(w)
    \/ Parse(w)
    \/ ReportParseErr(w)
    \/ Send(w)

Next ==
    \/ \E q \in Queries : Query(q)
    \/ \E qs \in Batches(MaxWorkers) : QueryAllCall(qs)
    \/ QueryAllLoop
    \/ QueryAllReturn
    \/ \E w \in Workers : Worker(w)
    \/ \E c \in Workers : ReceiverClose(c)
    \/ Errors

Spec == Init /\ [][Next]_vars

\* Scheduling is fair to a goroutine that can run, the caller finishes the
\* QueryAll it is in, every backend call returns (DoReturn) and the caller
\* receives from every channel it holds (the receive half of Send).
FairSpec ==
    /\ Spec
    /\ \A w \in Workers : WF_vars(Worker(w))
    /\ WF_vars(QueryAllLoop)
    /\ WF_vars(QueryAllReturn)

-----------------------------------------------------------------------------
(* Notions the properties use                                              *)

Created == 1..nworkers

Delivered(c) == Len(chanVal[c]) > 0

\* Positions after ctx.query has returned
AfterQuery == {"report1", "parse", "report2", "send", "done"}

\* The value query q's channel is to carry when the backend's answer to the
\* goroutine's request was r: the parsed canned answer to q, or else nil.
Expected(q, r) ==
    IF r.err = Nil /\ r.body = Canned(q) THEN <<"result", q>> ELSE Nil

\* The query failed: in the request step (construction, transport, decode)
\* or in the parse step.
Failed(w) == promErr[w] # Nil \/ parseErr[w] # Nil

-----------------------------------------------------------------------------
(* Properties                                                              *)

\* C1: every completed Query/QueryAll call returned as many channels as it
\* was given queries, the goroutine sending on the i-th returned channel runs
\* the i-th query, and the value received from the i-th channel is the
\* outcome of the i-th query (its parsed answer, or nil when it failed).
C1_OrderPreserved ==
    \A k \in 1..Len(calls) :
        /\ Len(calls[k].resChs) = Len(calls[k].queries)
        /\ \A i \in 1..Len(calls[k].resChs) :
              LET ch == calls[k].resChs[i] IN
              /\ ch \in Created
              /\ query[ch] = calls[k].queries[i]
              /\ Delivered(ch) =>
                    chanVal[ch][1] = Expected(calls[k].queries[i], resp[ch])

\* C1 witness: a batch of two different queries whose second channel has
\* delivered the second query's result while the first goroutine has not
\* even passed the gate.
C1_Witness ==
    \E k \in 1..Len(calls) :
        /\ Len(calls[k].queries) = 2
        /\ calls[k].queries[1] # calls[k].queries[2]
        /\ pc[calls[k].resChs[1]] = "acquire"
        /\ chanVal[calls[k].resChs[2]] = << <<"result", calls[k].queries[2]>> >>

\* C2: a channel never receives more than one value, has received exactly
\* one once its goroutine has ended, and none before.
C2_ExactlyOneSend ==
    \A c \in Workers :
        /\ Len(chanVal[c]) <= 1
        /\ pc[c] = "done" <=> Len(chanVal[c]) = 1

\* C2 witness: two goroutines have ended after one send each, one having
\* failed at request construction and the other at the parse.
C2_Witness ==
    \E c, d \in Created :
        /\ pc[c] = "done" /\ pc[d] = "done"
        /\ promErr[c] = NewRequestErr
        /\ promErr[d] = Nil /\ parseErr[d] # Nil
        /\ Len(chanVal[c]) = 1 /\ Len(chanVal[d]) = 1

\* The goroutines whose backend request is issued and has not returned.
InFlight == {w \in Workers : pc[w] = "inflight"}

\* C3: at most capacity requests are in flight.
C3_InFlightBounded == Cardinality(InFlight) <= capacity

\* C3 witness: the gate is full of in-flight requests while another goroutine
\* waits for a permit (more goroutines than permits).
C3_Witness ==
    /\ Cardinality(InFlight) = capacity
    /\ \E w \in Workers : pc[w] = "acquire"

\* All goroutines created so far have ended (their channels are drained) and
\* the caller is not inside QueryAll.
AllDrained ==
    /\ caller.pc = "idle"
    /\ nworkers > 0
    /\ \A w \in Created : pc[w] = "done"

\* C4 as claimed: once all channels are drained the collector holds exactly
\* one entry per failed query.
C4_OneEntryPerFailedQuery ==
    AllDrained => Len(errors) = Cardinality({w \in Created : Failed(w)})

\* C4, the scenario as claimed: one permit, a batch of two queries that both
\* get HTTP 500 with an error, channels drained: exactly two entries.
C4_Scenario500 ==
    ( /\ capacity = 1
      /\ AllDrained
      /\ nworkers = 2
      /\ \A w \in Created : resp[w].status = "500" /\ resp[w].err # Nil )
    => Len(errors) = 2

\* C5: the held permits stay within 0..capacity and are exactly the permits
\* of the goroutines that acquired and have not returned theirs; a goroutine
\* acquires at most once, never returns more than it acquired, and has
\* returned its permit once ctx.query is over, whichever way it ended.
C5_PermitsScoped ==
    /\ permits \in 0..capacity
    /\ permits = Cardinality({w \in Workers : acq[w] > rel[w]})
    /\ \A w \in Workers :
          /\ rel[w] <= acq[w] /\ acq[w] <= 1
          /\ pc[w] \in AfterQuery => acq[w] = 1 /\ rel[w] = 1
          /\ pc[w] \in {"build", "inflight", "decoding", "release"}
                => acq[w] = 1 /\ rel[w] = 0

\* C5 witness: two goroutines are past ctx.query with their permits returned,
\* one after a request-construction failure and one after a decode failure,
\* while the gate is empty again.
C5_Witness ==
    \E c, d \in Created :
        /\ pc[c] \in AfterQuery /\ pc[d] \in AfterQuery
        /\ promErr[c] = NewRequestErr
        /\ promErr[d] = ErrorfFetch(<<"syntax">>, query[d])
        /\ rel[c] = 1 /\ rel[d] = 1
        /\ permits = 0

\* C6: the value received from a channel is decided by its own query and the
\* backend's answer to that query alone, it is never an error of another
\* query, and a goroutine waiting at the gate or at its send is not held up
\* by other goroutines whose queries failed.
C6_SiblingsIndependent ==
    \A i \in Created :
        /\ Delivered(i) => chanVal[i][1] = Expected(query[i], resp[i])
        /\ \A j \in Created \ {i} :
              Delivered(i) /\ Failed(j)
                 => chanVal[i][1] \notin {promErr[j], parseErr[j]} \ {Nil}
        /\ ( /\ pc[i] = "send"
             /\ i \in Returned
             /\ \E j \in Created \ {i} : Failed(j) ) => ENABLED Send(i)
        /\ ( /\ pc[i] = "acquire"
             /\ \A j \in Created \ {i} : Failed(j) /\ pc[j] \in AfterQuery )
           => ENABLED Acquire(i)

\* C6 witness: a query failed and its goroutine ended, and its sibling's
\* channel delivered the sibling's parsed result.
C6_Witness ==
    \E i, j \in Created :
        /\ i # j
        /\ Failed(j) /\ pc[j] = "done"
        /\ chanVal[i] = << <<"result", query[i]>> >>

\* C7: under FairSpec there is a moment from which on every goroutine that
\* was created has ended, having acquired a permit and with its one value
\* received, and no permit is held.  (A goroutine never leaves "done", so
\* this is that each goroutine waiting at the gate eventually ends.)
C7_EveryWorkerFinishes ==
    <>[](/\ \A w \in Created :
               pc[w] = "done" /\ acq[w] = 1 /\ Len(chanVal[w]) = 1
         /\ permits = 0)

\* C7 witness: more goroutines than permits were created, all have ended
\* with their value received and no permit is held.
C7_Witness ==
    /\ nworkers > capacity
    /\ \A w \in Created : pc[w] = "done" /\ Len(chanVal[w]) = 1
    /\ permits = 0

\* C8: the caller is never held up inside Query or QueryAll: the next
\* iteration or the return of QueryAll, and a call of Query, can be taken
\* whatever the gate and the goroutines are doing; and the channel of a
\* goroutine that has not reached its send has no value.
C8_QueryDoesNotWait ==
    /\ caller.pc = "loop" => ENABLED (QueryAllLoop \/ QueryAllReturn)
    /\ (caller.pc = "idle" /\ Len(calls) < MaxCalls /\ nworkers < MaxWorkers)
          => \A q \in Queries : ENABLED Query(q)
    /\ \A c \in Created : pc[c] # "done" => chanVal[c] = <<>> /\ ~closed[c]

\* C8 witness: QueryAll has returned the channels of more goroutines than
\* there are permits while every permit is held by a request in flight, and
\* no channel has a value yet.
C8_Witness ==
    /\ caller.pc = "idle"
    /\ nworkers > capacity
    /\ Created \subseteq Returned
    /\ permits = capacity
    /\ Cardinality(InFlight) = capacity
    /\ \A c \in Created : chanVal[c] = <<>>

\* C9 as claimed: a goroutine that has ended has closed its channel.
C9_ProducerCloses == \A w \in Created : pc[w] = "done" => closed[w]

\* C9 amended: no step of a goroutine closes a channel.  The send leaves the
\* channel open with its one value received, and a channel is closed only
\* by the receiver, after that value.
C9_OnlyReceiverCloses ==
    [][\A c \in Workers :
          /\ (pc[c] = "send" /\ pc'[c] = "done")
                => (~closed'[c] /\ Len(chanVal'[c]) = 1)
          /\ (closed'[c] # closed[c])
                => (pc' = pc /\ pc[c] = "done" /\ closed'[c])]_vars

\* C9 witness: a goroutine has ended, its value was received and its channel
\* is open.
C9_Witness ==
    \E w \in Created : pc[w] = "done" /\ Len(chanVal[w]) = 1 /\ ~closed[w]

RECURSIVE SeqToBag(_)
SeqToBag(s) ==
    IF s = <<>> THEN EmptyBag ELSE SetToBag({Head(s)}) (+) SeqToBag(Tail(s))

\* The non-nil errors goroutine w has passed to Report so far.
Reported(w) ==
    (IF pc[w] \in {"parse", "report2", "send", "done"} /\ promErr[w] # Nil
     THEN <<promErr[w]>> ELSE <<>>)
    \o (IF pc[w] \in {"send", "done"} /\ parseErr[w] # Nil
        THEN <<parseErr[w]>> ELSE <<>>)

RECURSIVE ReportedUpTo(_)
ReportedUpTo(n) == IF n = 0 THEN <<>> ELSE ReportedUpTo(n - 1) \o Reported(n)

\* C10: at every moment, and so once all goroutines have ended, the entries
\* of the collector are as a multiset the non-nil errors the goroutines have
\* passed to Report: none lost, none twice.
C10_NoReportLostOrDuplicated ==
    SeqToBag(errors) = SeqToBag(ReportedUpTo(MaxWorkers))

\* C10 witness: all goroutines have ended, two of them reported two errors
\* each, and their reports are interleaved in the collector.
C10_Witness ==
    /\ AllDrained
    /\ nworkers = 2
    /\ Len(errors) = 4
    /\ promErr[1] # promErr[2]
    /\ errors[1] = promErr[2]
    /\ errors[2] = promErr[1]
    /\ errors[3] = parseErr[1]

\* a is an initial part of b
IsPrefix(a, b) == Len(a) <= Len(b) /\ SubSeq(b, 1, Len(a)) = a

\* The goroutine made both Report calls with nil: request and parse succeeded.
Succeeded(w) == pc[w] \in {"send", "done"} /\ promErr[w] = Nil /\ parseErr[w] = Nil

\* C11: a Report call with a nil error leaves the collector as it is (both
\* calls of a goroutine whose request and parse succeeded), and a Report call
\* with a non-nil error appends exactly that error.
C11_NilReportIsNoOp ==
    [][\A w \in Workers :
          /\ (pc[w] = "report1" /\ pc'[w] # "report1")
                => errors' = (IF promErr[w] = Nil THEN errors
                              ELSE Append(errors, promErr[w]))
          /\ (pc[w] = "report2" /\ pc'[w] # "report2")
                => errors' = (IF parseErr[w] = Nil THEN errors
                              ELSE Append(errors, parseErr[w]))]_vars

\* C11 witness: a goroutine whose request and parse succeeded has made both
\* Report calls, and the collector holds only the two errors of the other
\* goroutine, whose query failed.
C11_Witness ==
    \E w, v \in Created :
        /\ Succeeded(w) /\ pc[w] = "done"
        /\ pc[v] = "done" /\ promErr[v] # Nil
        /\ errors = <<promErr[v], parseErr[v]>>

\* C12: a call of Errors() returns the collector's content of that moment
\* and changes nothing else; it can be made in every state; what it returned
\* is not changed by later Report calls and remains an initial part of the
\* collector's content; a call repeated with no Report in between returns
\* the same again.
C12_ErrorsIsSnapshot ==
    /\ [](ENABLED Errors /\ IsPrefix(snap, errors))
    /\ [][/\ snap' # snap =>
                /\ snap' = errors
                /\ UNCHANGED <<capacity, permits, errors, nworkers, pc, query,
                               resp, raw, promErr, results, parseErr, chanVal,
                               closed, caller, calls, acq, rel>>
          /\ errors' # errors => snap' = snap
          /\ (snap = errors /\ errors' = errors) => snap' = snap]_vars

\* C12 witness: Errors() returned one error while a goroutine was between its
\* two Report calls, and the collector has grown since.
C12_Witness ==
    /\ Len(snap) = 1
    /\ Len(errors) > 1
    /\ \E w \in Created : promErr[w] = snap[1] /\ parseErr[w] = errors[2]

\* Goroutines that hold a permit
Holders == {w \in Workers : acq[w] > rel[w]}

C13_ParsingUnbounded ==
    /\ capacity = 1
    /\ Cardinality({w \in Workers : pc[w] = "parse"}) = 2

\* C14 as claimed: a goroutine whose request step failed (construction,
\* transport or decode) has reported that one error and nothing else when it
\* comes to its send, and its result is nil.
C14_OneErrorPerRequestFailure ==
    \A w \in Workers :
        (pc[w] \in {"send", "done"} /\ promErr[w] # Nil)
            => (Reported(w) = <<promErr[w]>> /\ results[w] = Nil)

\* C14, the scenario as claimed: a batch of two whose first query got a body
\* that is not JSON and whose second got JSON of another shape, both channels
\* drained: two entries.
C14_ScenarioDecodeAndParse ==
    ( /\ AllDrained
      /\ nworkers = 2
      /\ resp[1].body = NonJsonBody /\ resp[1].err = Nil
      /\ resp[2].body = MismatchBody /\ resp[2].err = Nil )
    => Len(errors) = 2

\* C15: a goroutine that is at its send or has sent holds no permit, the
\* held permits are those of goroutines inside ctx.query, a goroutine leaves
\* its send only by the receive of its value, and goroutines blocked at
\* their send do not keep a waiting goroutine from the gate.
C15_BlockedSenderHoldsNoPermit ==
    /\ [](/\ \A w \in Workers : pc[w] \in {"send", "done"} => w \notin Holders
          /\ permits = Cardinality({w \in Workers :
                          pc[w] \in {"build", "inflight", "decoding", "release"}})
          /\ \A w \in Workers :
                ( /\ pc[w] = "acquire"
                  /\ \A v \in Created \ {w} : pc[v] = "send" )
                => ENABLED Acquire(w))
    /\ [][\A w \in Workers :
             (pc[w] = "send" /\ pc'[w] # "send")
                => (pc'[w] = "done" /\ chanVal'[w] = <<results[w]>>)]_vars

\* C15 witness: with one permit, a goroutine is blocked at its send, its
\* channel not received from, and the other goroutine has taken the permit
\* and has its request in flight.
C15_Witness ==
    /\ capacity = 1
    /\ \E w, v \in Created :
          /\ pc[w] = "send" /\ chanVal[w] = <<>>
          /\ pc[v] = "inflight" /\ Holders = {v}

\* C16: a goroutine leaves "in flight" only by the return of Client.Do and
\* holds its permit until then; while capacity requests are in flight no
\* goroutine waiting at the gate can pass it, none passes it, and the
\* channels of the waiting goroutines stay without a value.
C16_NoTimeout ==
    /\ [](\A w \in Workers :
             /\ pc[w] = "inflight" => w \in Holders
             /\ (Cardinality(InFlight) = capacity /\ pc[w] = "acquire")
                   => (~ENABLED Acquire(w) /\ chanVal[w] = <<>>))
    /\ [][\A w \in Workers :
             /\ (pc[w] = "inflight" /\ pc'[w] # "inflight")
                   => (resp'[w] \in DoOutcomes(query[w])
                       /\ pc'[w] \in {"decoding", "release"})
             /\ (Cardinality(InFlight) = capacity /\ pc[w] = "acquire")
                   => (pc'[w] = "acquire" /\ acq'[w] = acq[w])]_vars

\* C16 witness: one permit; the request of the first call is in flight and
\* the goroutine of a later call waits at the gate, its channel returned to
\* the caller and without a value.
C16_Witness ==
    /\ capacity = 1
    /\ Len(calls) = 2
    /\ pc[1] = "inflight"
    /\ pc[2] = "acquire"
    /\ calls[2].resChs = <<2>>
    /\ chanVal[2] = <<>>

\* The stages of a goroutine in their order: created and awaiting a permit
\* ("acquire"), request in flight ("build", "inflight"), decoding
\* ("decoding", "release"), parsing ("report1", "parse", "report2"),
\* publishing ("send"), terminated ("done").
Rank(p) ==
    CASE p = "none"     -> 0
      [] p = "acquire"  -> 1
      [] p = "build"    -> 2
      [] p = "inflight" -> 3
      [] p = "decoding" -> 4
      [] p = "release"  -> 5
      [] p = "report1"  -> 6
      [] p = "parse"    -> 7
      [] p = "report2"  -> 8
      [] p = "send"     -> 9
      [] p = "done"     -> 10

\* C17: every step of a goroutine takes it to a later position, so it passes
\* the gate once and issues its request once; passing the gate is the one
\* Acquire, ending ctx.query the one Return; the permit is held while the
\* request is in flight and returned before the send.
C17_ForwardOnly ==
    /\ [](\A w \in Workers :
             /\ acq[w] = (IF Rank(pc[w]) >= Rank("build") THEN 1 ELSE 0)
             /\ rel[w] = (IF Rank(pc[w]) >= Rank("report1") THEN 1 ELSE 0))
    /\ [][\A w \in Workers :
             /\ pc'[w] # pc[w] => Rank(pc'[w]) > Rank(pc[w])
             /\ pc'[w] = "inflight" => pc[w] \in {"build", "inflight"}
             /\ acq'[w] # acq[w] => (pc[w] = "acquire" /\ pc'[w] = "build")
             /\ rel'[w] # rel[w] => (pc[w] = "release" /\ pc'[w] = "report1")]_vars

\* C17 witness: one goroutine has ended after a request that failed in
\* transport, with one Acquire and one Return, and another went through the
\* decoding and is at its send.
C17_Witness ==
    \E w, v \in Created :
        /\ pc[w] = "done" /\ resp[w].err # Nil /\ acq[w] = 1 /\ rel[w] = 1
        /\ pc[v] = "send" /\ resp[v].status = "200" /\ acq[v] = 1 /\ rel[v] = 1

RECURSIVE ErrorsOfDelivered(_)
\* The errors of the queries of goroutines 1..n whose value was received
ErrorsOfDelivered(n) ==
    IF n = 0 THEN <<>>
    ELSE ErrorsOfDelivered(n - 1)
         \o (IF Delivered(n) /\ promErr[n] # Nil THEN <<promErr[n]>> ELSE <<>>)
         \o (IF Delivered(n) /\ parseErr[n] # Nil THEN <<parseErr[n]>> ELSE <<>>)

\* C18: the errors of every query whose value has been received are in the
\* collector, each as often as it was produced; a goroutine at its send has
\* made both Report calls; and a call of Errors() made once all channels are
\* drained returns the collector with all of them.
C18_ErrorsBeforeValue ==
    /\ [](/\ SeqToBag(ErrorsOfDelivered(MaxWorkers)) \sqsubseteq SeqToBag(errors)
          /\ \A w \in Workers :
                pc[w] \in {"send", "done"}
                   => Len(Reported(w)) = (IF promErr[w] # Nil THEN 1 ELSE 0)
                                         + (IF parseErr[w] # Nil THEN 1 ELSE 0))
    /\ [][(AllDrained /\ snap' # snap)
             => SeqToBag(ErrorsOfDelivered(MaxWorkers)) \sqsubseteq SeqToBag(snap')]_vars

\* C18 witness: the value of a failed query was received with its two errors
\* in the collector, while the other goroutine is still inside ctx.query.
C18_Witness ==
    \E w, v \in Created :
        /\ Delivered(w) /\ promErr[w] # Nil /\ parseErr[w] # Nil
        /\ errors = <<promErr[w], parseErr[w]>>
        /\ pc[v] = "inflight"

\* C19: the capacity never changes and the bound on requests in flight holds
\* with goroutines of several calls; the collector only grows by appending,
\* whatever call is made; and what Errors() returned is an initial part of
\* the collector's content at every later moment.
C19_SharedAcrossCalls ==
    /\ [](/\ Cardinality(InFlight) <= capacity
          /\ permits <= capacity
          /\ IsPrefix(snap, errors))
    /\ [][/\ capacity' = capacity
          /\ IsPrefix(errors, errors')
          /\ (caller' # caller \/ calls' # calls)
                => (errors' = errors /\ permits' = permits)]_vars

\* C19 witness: one permit and two calls; the goroutine of the first call
\* failed and ended, Errors() returned its two errors, the goroutine of the
\* second call failed too, and the collector holds the errors of both calls,
\* those of the first call first.
C19_Witness ==
    /\ capacity = 1
    /\ Len(calls) = 2
    /\ calls[1].resChs = <<1>> /\ calls[2].resChs = <<2>>
    /\ snap = <<promErr[1], parseErr[1]>>
    /\ Len(snap) = 2
    /\ pc[2] = "done"
    /\ errors = snap \o <<promErr[2], parseErr[2]>>
    /\ Len(errors) = 4

====
